---- MODULE Spec2Model ----
(***************************************************************************)
(* Issue workflow of the citizen issue-reporting application.              *)
(*                                                                         *)
(* The state is the three workflow tables of the area-admin migration      *)
(* (issues, issue_assignments, work_progress); the operations are the      *)
(* stored procedures and triggers of that migration and the client         *)
(* wrappers of lib/supabase that reach them.  Every action is one          *)
(* database transaction: it either commits all of its writes or, when a    *)
(* statement raises, none of them.                                         *)
(***************************************************************************)
EXTENDS Integers, Sequences, FiniteSets, TLC

(* ------------------------------------------------------------------ *)
(* Bounds of the model                                                 *)
(* ------------------------------------------------------------------ *)
MaxIssues == 2
MaxAssignments == 2
MaxWorkProgress == 1
MaxClock == 5
MaxTenders == 1
MaxTenderAssignments == 2
MaxBids == 2
MaxRounds == 3
MaxSubmissions == 2
MaxRateTenders == 6
MaxRateClock == 8
MaxTicks == 4
MaxVotes == 5

(* ------------------------------------------------------------------ *)
(* Values                                                              *)
(* ------------------------------------------------------------------ *)
\* SQL NULL / JS null for text and uuid columns that hold profile, area
\* and department references.
NULL == "NULL"
\* SQL NULL of a timestamptz column; now() is always >= 1.
NullTime == 0
\* SQL NULL of a uuid column that references a row of a modelled table
\* (rows are numbered from 1 in insertion order).
NoRow == 0
\* SQL NULL of a text[] column, as opposed to the empty array << >>.
NullArray == << NULL >>
\* SQL NULL / JS undefined of a text column whose values are character
\* sequences, as opposed to the empty text << >>.
NullText == << NULL >>

AssignmentTypes == { "area_admin", "department_admin", "contractor" }

(* ------------------------------------------------------------------ *)
(* Reference data: profiles, areas, departments                        *)
(* ------------------------------------------------------------------ *)
UserIds == { "cit", "aadm", "dadm", "dadm2", "con" }

Profiles ==
  [ cit   |-> [ user_type |-> "user",             assigned_department_id |-> NULL,
                is_verified |-> TRUE ],
    aadm  |-> [ user_type |-> "area_super_admin", assigned_department_id |-> NULL,
                is_verified |-> TRUE ],
    dadm  |-> [ user_type |-> "department_admin", assigned_department_id |-> "dept1",
                is_verified |-> TRUE ],
    dadm2 |-> [ user_type |-> "department_admin", assigned_department_id |-> "dept2",
                is_verified |-> FALSE ],
    con   |-> [ user_type |-> "tender",           assigned_department_id |-> NULL,
                is_verified |-> TRUE ] ]

DepartmentIds == { "dept1", "dept2" }

\* The signed-in users that act in the model, by operation: the user the
\* operation is meant for and users it is not meant for.  NULL: no session.
Reporters == { "cit", "dadm", NULL }

Assigners == { "aadm", "cit" }

Submitters == { "dadm", "con", "cit" }

Reviewers == { "aadm", "cit" }

\* Area names are texts: sequences of characters.
Chars == { "K", "k", "B", "b", "C", "c", "P", "p", "X", "x" }

LowerChar ==
  [ c \in Chars |->
      CASE c = "K" -> "k" [] c = "B" -> "b" [] c = "C" -> "c"
        [] c = "P" -> "p" [] c = "X" -> "x" [] OTHER -> c ]

\* LOWER(text)
Lower(s) == [ i \in 1..Len(s) |-> LowerChar[s[i]] ]

Areas ==
  { [ id |-> "area1", name |-> << "K", "b" >>, is_active |-> TRUE,
      area_super_admin_id |-> "aadm" ],
    [ id |-> "area2", name |-> << "C", "p" >>, is_active |-> TRUE,
      area_super_admin_id |-> NULL ],
    [ id |-> "area3", name |-> << "P", "b" >>, is_active |-> FALSE,
      area_super_admin_id |-> "aadm" ] }

(* ------------------------------------------------------------------ *)
(* State                                                               *)
(* ------------------------------------------------------------------ *)
VARIABLES
  issues,              \* table issues: sequence of rows, id = index
  issue_assignments,   \* table issue_assignments: sequence of rows, id = index
  work_progress,       \* table work_progress: sequence of rows, id = index
  now,                 \* now(): the time of the next transaction
  result,              \* what the last call returned to its caller, with its arguments
  tenders,             \* table tenders: sequence of rows, id = index
  tender_assignments,  \* table tender_assignments: sequence of rows
  bids,                \* table bids: sequence of rows
  sessions,            \* the transactions in progress, statement by statement
  rateLimitMap,        \* rateLimitMap of the running client: key -> time stamps
  clock,               \* Date.now() of the running client, in milliseconds
  issue_votes,         \* table issue_votes: sequence of rows
  bid_calls            \* the createBid calls in progress, request by request

vars == << issues, issue_assignments, work_progress, now, result,
           tenders, tender_assignments, bids, sessions,
           rateLimitMap, clock, issue_votes, bid_calls >>

\* The memory of the running client.
client_memory == << rateLimitMap, clock >>

tables == << issues, issue_assignments, work_progress, now >>

\* The tables of the tender functions of the client library.
tender_tables == << tenders, tender_assignments, bids >>

NoResult == [ op |-> "none", caller |-> NULL, ok |-> TRUE, error |-> NULL, args |-> << >> ]

Success(op, caller, args) ==
  [ op |-> op, caller |-> caller, ok |-> TRUE, error |-> NULL, args |-> args ]

Failure(op, caller, args, message) ==
  [ op |-> op, caller |-> caller, ok |-> FALSE, error |-> message, args |-> args ]

\* Two database sessions, each running at most one transaction.
Slots == { 1, 2 }

\* A session with no transaction: the procedure it runs, the statement it
\* is at, the procedure's parameters and variables, and the rows it has
\* written and not yet committed.
IdleTxn ==
  [ op |-> "idle", pc |-> "idle", uid |-> NULL, issue_id |-> NoRow,
    department_id |-> NULL, work_progress_id |-> NoRow,
    dept_admin_id |-> NULL, assignment_id |-> NoRow, progress_record |-> << >>,
    writes |-> << >> ]

\* No transaction in progress, none run so far.  rounds counts the times a
\* transaction began with no other in progress, base is the committed
\* database at that moment, and ran lists the calls begun since then.
NoSessions ==
  [ slot |-> [ s \in Slots |-> IdleTxn ], rounds |-> 0,
    base |-> [ issues |-> << >>, issue_assignments |-> << >>, work_progress |-> << >> ],
    ran |-> << >> ]

\* The time the client is started at, and the step of its clock.
TickMs == 1800000

\* Two createBid calls can be in progress at a time.
BidSlots == { 1, 2 }

\* No createBid call in progress: a call has the request it is at, its
\* signed-in user and its bidData.
IdleBidCall == [ pc |-> "idle", caller |-> NULL, tender_id |-> NoRow ]

NoBidCalls == [ slot \in BidSlots |-> IdleBidCall ]

Init ==
  /\ sessions = NoSessions
  /\ rateLimitMap = << >>
  /\ clock = TickMs
  /\ issue_votes = << >>
  /\ bid_calls = NoBidCalls
  /\ issues = << >>
  /\ issue_assignments = << >>
  /\ work_progress = << >>
  /\ now = 1
  /\ result = NoResult
  /\ tenders = << >>
  /\ tender_assignments = << >>
  /\ bids = << >>

(* ------------------------------------------------------------------ *)
(* The database seen by one transaction                                *)
(* ------------------------------------------------------------------ *)
DB == [ issues |-> issues, issue_assignments |-> issue_assignments,
        work_progress |-> work_progress ]

\* A statement either raises (the transaction is rolled back) or yields
\* the database it leaves.
Raise(code) == [ raised |-> TRUE, error |-> code, db |-> DB ]

Done(db) == [ raised |-> FALSE, error |-> NULL, db |-> db ]

\* The transaction commits: its writes become visible and time moves on.
Commit(db) ==
  /\ issues' = db.issues
  /\ issue_assignments' = db.issue_assignments
  /\ work_progress' = db.work_progress
  /\ now' = now + 1

\* New rows fit the bounds of the model.
Room(db) ==
  /\ Len(db.issues) <= MaxIssues
  /\ Len(db.issue_assignments) <= MaxAssignments
  /\ Len(db.work_progress) <= MaxWorkProgress

(* ------------------------------------------------------------------ *)
(* Table issue_assignments: policy, constraints, trigger               *)
(* ------------------------------------------------------------------ *)
AdminUserTypes == { "admin", "area_super_admin", "department_admin" }

\* CREATE POLICY "Admins can create assignments" ... WITH CHECK
AdminsCanCreateAssignments(uid, row) ==
  /\ uid = row.assigned_by
  /\ uid \in UserIds
  /\ Profiles[uid].user_type \in AdminUserTypes

\* Mutant of update_issue_workflow: the department_admin branch leaves
\* assigned_department_id to the caller of the trigger.
update_issue_workflow_NoDepartment(tbl, new) ==
  IF new.issue_id \notin DOMAIN tbl THEN tbl
  ELSE [ tbl EXCEPT ![new.issue_id] =
           [ @ EXCEPT !.workflow_stage =
                        CASE new.assignment_type = "area_admin" -> "area_review"
                          [] new.assignment_type = "department_admin" -> "department_assigned"
                          [] OTHER -> "contractor_assigned",
                      !.current_assignee_id = new.assigned_to ] ]

\* AFTER INSERT ON issue_assignments: the issue follows the assignment.
\* The UPDATEs address the issue by id; a row that is not (yet) in the
\* table is not updated.
update_issue_workflow(tbl, new) ==
  IF new.issue_id \notin DOMAIN tbl THEN tbl
  ELSE CASE new.assignment_type = "area_admin" ->
              [ tbl EXCEPT ![new.issue_id] =
                  [ @ EXCEPT !.workflow_stage = "area_review",
                             !.current_assignee_id = new.assigned_to ] ]
         [] new.assignment_type = "department_admin" ->
              [ tbl EXCEPT ![new.issue_id] =
                  [ @ EXCEPT !.workflow_stage = "department_assigned",
                             !.current_assignee_id = new.assigned_to,
                             !.assigned_department_id =
                                Profiles[new.assigned_to].assigned_department_id ] ]
         [] new.assignment_type = "contractor" ->
              [ tbl EXCEPT ![new.issue_id] =
                  [ @ EXCEPT !.workflow_stage = "contractor_assigned",
                             !.current_assignee_id = new.assigned_to ] ]
         [] OTHER -> tbl

\* The row as stored: column defaults filled in.
AssignmentRow(issue_id, assigned_by, assigned_to, assignment_type) ==
  [ issue_id |-> issue_id, assigned_by |-> assigned_by, assigned_to |-> assigned_to,
    assignment_type |-> assignment_type, status |-> "active",
    completed_at |-> NullTime ]

\* INSERT INTO issue_assignments by the role uid.  definer: the statement
\* runs inside a SECURITY DEFINER function, whose owner row level security
\* does not restrict.  The foreign keys are checked at the end of the
\* INSERT statement, against the rows the tables hold at that moment.
InsertIssueAssignment(db, uid, definer, row) ==
  IF ~definer /\ ~AdminsCanCreateAssignments(uid, row)
    THEN Raise("new row violates row-level security policy")
  ELSE IF row.assigned_by = NULL \/ row.assigned_to = NULL
    THEN Raise("null value violates not-null constraint")
  ELSE IF row.assignment_type \notin AssignmentTypes
    THEN Raise("new row violates check constraint")
  ELSE IF \/ row.issue_id \notin DOMAIN db.issues
          \/ row.assigned_by \notin UserIds
          \/ row.assigned_to \notin UserIds
    THEN Raise("insert violates foreign key constraint")
  ELSE Done([ db EXCEPT !.issue_assignments = Append(@, row),
                        !.issues = update_issue_workflow(@, row) ])

(* ------------------------------------------------------------------ *)
(* Issue creation: createIssue and the BEFORE INSERT trigger           *)
(* ------------------------------------------------------------------ *)
AreaTexts ==
  { NullText, << "K", "b" >>, << "k", "B" >>, << "C", "p" >>,
    << "P", "b" >>, << "X", "x" >> }

\* WHERE LOWER(a.name) = LOWER(NEW.area) AND a.is_active = true
MatchingAreas(area) ==
  { a \in Areas : Lower(a.name) = Lower(area) /\ a.is_active }

\* The last statement of the trigger: without an assignee the issue is
\* kept in 'reported'.
KeepReported(new) ==
  IF new.current_assignee_id = NULL
    THEN [ new EXCEPT !.workflow_stage = "reported" ]
    ELSE new

\* The trigger for one area the SELECT ... LIMIT 1 found.  It yields the
\* row to insert and the database its own INSERT left, or raises.
AutoAssignFound(db, uid, id, new, area_record) ==
  IF area_record.area_super_admin_id # NULL
    THEN LET ins == InsertIssueAssignment(db, uid, FALSE,
                      AssignmentRow(id, new.user_id,
                                    area_record.area_super_admin_id, "area_admin"))
         IN  IF ins.raised THEN [ ins EXCEPT !.db = db ] @@ [ row |-> new ]
             ELSE ins @@
                  [ row |-> KeepReported(
                      [ new EXCEPT !.assigned_area_id = area_record.id,
                                   !.current_assignee_id = area_record.area_super_admin_id,
                                   !.workflow_stage = "area_review" ]) ]
    ELSE Done(db) @@ [ row |-> KeepReported(new) ]

\* BEFORE INSERT ON issues, run as the inserting role: the set of outcomes
\* (LIMIT 1 without ORDER BY takes any of the matching areas).
auto_assign_issue_to_area(db, uid, id, new) ==
  IF new.area # NullText /\ MatchingAreas(new.area) # {}
    THEN { AutoAssignFound(db, uid, id, new, a) : a \in MatchingAreas(new.area) }
    ELSE { Done(db) @@ [ row |-> KeepReported(new) ] }

\* The columns of an issues row the workflow reads or writes.
IssueRow(new) ==
  [ user_id |-> new.user_id, status |-> new.status,
    workflow_stage |-> new.workflow_stage,
    assigned_area_id |-> new.assigned_area_id,
    assigned_department_id |-> NULL,
    current_assignee_id |-> new.current_assignee_id,
    resolved_at |-> NullTime,
    final_resolution_notes |-> NULL,
    final_resolution_images |-> NullArray ]

TitleLengths == { 4, 5 }

DescriptionLengths == { 9, 10 }

Categories == { NULL, "roads" }

\* What a caller may place in issueData besides the validated fields.
IssuePresets ==
  [ area : AreaTexts,
    workflow_stage : { "reported", "resolved" },
    current_assignee_id : { NULL, "con" } ]

\* createIssue(issueData), called by the signed-in user `caller` (NULL: no
\* session).  title and description are given by their lengths.
createIssue ==
  \E caller \in Reporters, title \in TitleLengths,
     description \in DescriptionLengths, category \in Categories :
    /\ Len(issues) < MaxIssues
    /\ now < MaxClock
    /\ UNCHANGED << tender_tables, sessions, client_memory, issue_votes, bid_calls >>
    /\ IF caller = NULL
         THEN /\ result' = Failure("createIssue", caller, << >>, "User not authenticated")
              /\ UNCHANGED tables
       ELSE IF title = 0 \/ description = 0 \/ category = NULL
         THEN /\ result' = Failure("createIssue", caller, << >>,
                                   "Title, description, and category are required")
              /\ UNCHANGED tables
       ELSE IF title < 5 \/ title > 200
         THEN /\ result' = Failure("createIssue", caller, << >>,
                                   "Title must be between 5 and 200 characters")
              /\ UNCHANGED tables
       ELSE IF description < 10 \/ description > 2000
         THEN /\ result' = Failure("createIssue", caller, << >>,
                                   "Description must be between 10 and 2000 characters")
              /\ UNCHANGED tables
       ELSE \E issueData \in IssuePresets :
              LET payload == [ area |-> issueData.area,
                               workflow_stage |-> issueData.workflow_stage,
                               current_assignee_id |-> issueData.current_assignee_id,
                               assigned_area_id |-> NULL,
                               user_id |-> caller,
                               status |-> "pending" ]
                  id == Len(issues) + 1
              IN  \E out \in auto_assign_issue_to_area(DB, caller, id, payload) :
                    IF out.raised
                      THEN /\ result' = Failure("createIssue", caller, issueData, out.error)
                           /\ UNCHANGED tables
                      ELSE /\ Room(out.db)
                           /\ Commit([ out.db EXCEPT !.issues = Append(@, IssueRow(out.row)) ])
                           /\ result' = Success("createIssue", caller,
                                                issueData @@ [ id |-> id ])

(* ------------------------------------------------------------------ *)
(* Calls: what the caller gets back, and what the database keeps        *)
(* ------------------------------------------------------------------ *)
\* A procedure's RETURN jsonb_build_object(...)
Returned(db, ret) == Done(db) @@ [ ret |-> ret ]

RetSuccess == [ success |-> TRUE, error |-> NULL ]

RetError(message) == [ success |-> FALSE, error |-> message ]

\* The end of a call whose transaction had the outcome `out`: a raised
\* error rolls back, anything else commits.  Time moves on when rows were
\* written.
Finish(op, caller, args, out) ==
  IF out.raised
    THEN /\ result' = Failure(op, caller, args, out.error)
         /\ UNCHANGED tables
    ELSE /\ Room(out.db)
         /\ IF out.db = DB THEN UNCHANGED tables ELSE Commit(out.db)
         /\ result' = IF out.ret.error # NULL
                        THEN Failure(op, caller, args, out.ret.error)
                        ELSE Success(op, caller, args)

\* supabase.rpc(fn, args) reaches a function only by the names of its
\* parameters: every key must name a parameter, and every parameter
\* without DEFAULT must be given.
RpcSignatures ==
  [ assign_issue_to_department |->
      [ params |-> { "issue_id", "department_id", "assignment_notes" },
        required |-> { "issue_id", "department_id" } ],
    submit_work_completion |->
      [ params |-> { "issue_id", "title", "description", "after_images", "before_images" },
        required |-> { "issue_id", "title", "description", "after_images" } ],
    approve_work_completion |->
      [ params |-> { "work_progress_id", "review_notes" },
        required |-> { "work_progress_id" } ] ]

RpcResolves(fn, keys) ==
  /\ keys \subseteq RpcSignatures[fn].params
  /\ RpcSignatures[fn].required \subseteq keys

(* ------------------------------------------------------------------ *)
(* Direct INSERT into issue_assignments by a client                    *)
(* ------------------------------------------------------------------ *)
\* The hand-offs a client inserts itself: (assigned_to, assignment_type).
DirectAssignments == { << "aadm", "area_admin" >>, << "con", "contractor" >> }

InsertAssignment ==
  \E caller \in Assigners, issue_id \in 1..MaxIssues, a \in DirectAssignments :
    /\ now < MaxClock
    /\ UNCHANGED << tender_tables, sessions, client_memory, issue_votes, bid_calls >>
    /\ LET args == [ issue_id |-> issue_id, assigned_to |-> a[1],
                     assignment_type |-> a[2] ]
           out == InsertIssueAssignment(DB, caller, FALSE,
                                        AssignmentRow(issue_id, caller, a[1], a[2]))
       IN  Finish("InsertAssignment", caller, args, out @@ [ ret |-> RetSuccess ])

(* ------------------------------------------------------------------ *)
(* assign_issue_to_department                                          *)
(* ------------------------------------------------------------------ *)
\* SELECT id FROM profiles WHERE assigned_department_id = department_id
\* AND user_type = 'department_admin' AND is_verified = true
DepartmentAdmins(department_id) ==
  { p \in UserIds : /\ Profiles[p].assigned_department_id = department_id
                    /\ Profiles[p].user_type = "department_admin"
                    /\ Profiles[p].is_verified }

\* The procedure's own UPDATE issues ... WHERE id = issue_id
AssignDepartmentUpdate(tbl, issue_id, department_id, dept_admin_id) ==
  IF issue_id \notin DOMAIN tbl THEN tbl
  ELSE [ tbl EXCEPT ![issue_id] =
           [ @ EXCEPT !.assigned_department_id = department_id,
                      !.current_assignee_id = dept_admin_id,
                      !.workflow_stage = "department_assigned" ] ]

\* The outcomes of the procedure called by uid (SECURITY DEFINER).
assign_issue_to_department(db, uid, issue_id, department_id) ==
  IF DepartmentAdmins(department_id) = {}
    THEN { Returned(db, RetError("No department admin found for this department")) }
    ELSE { LET ins == InsertIssueAssignment(db, uid, TRUE,
                        AssignmentRow(issue_id, uid, dept_admin_id, "department_admin"))
           IN  IF ins.raised THEN ins @@ [ ret |-> RetError(ins.error) ]
               ELSE Returned([ ins.db EXCEPT !.issues =
                                 AssignDepartmentUpdate(@, issue_id, department_id,
                                                        dept_admin_id) ],
                             RetSuccess @@ [ assigned_to |-> dept_admin_id ])
           : dept_admin_id \in DepartmentAdmins(department_id) }

\* A client calls the procedure with its parameters named as declared.
CallAssignIssueToDepartment ==
  \E caller \in Assigners, issue_id \in 1..MaxIssues, department_id \in DepartmentIds :
    /\ now < MaxClock
    /\ UNCHANGED << tender_tables, sessions, client_memory, issue_votes, bid_calls >>
    /\ \E out \in assign_issue_to_department(DB, caller, issue_id, department_id) :
         Finish("assign_issue_to_department", caller,
                [ issue_id |-> issue_id, department_id |-> department_id ], out)

\* assignIssueToDepartment(issueId, departmentId, notes) of the client
\* library; issueId 0 and departmentId NULL stand for a missing argument.
assignIssueToDepartment ==
  \E caller \in { "aadm", NULL }, issueId \in 0..1, departmentId \in { "dept1", NULL } :
    LET args == << >>
        keys == { "issue_id_param", "department_id_param", "assigned_by_param",
                  "notes_param" }
    IN  /\ now < MaxClock
        /\ UNCHANGED << tender_tables, sessions, client_memory, issue_votes, bid_calls >>
        /\ IF issueId = 0 \/ departmentId = NULL
             THEN /\ result' = Failure("assignIssueToDepartment", caller, args,
                                       "Issue ID and Department ID are required")
                  /\ UNCHANGED tables
           ELSE IF caller = NULL
             THEN /\ result' = Failure("assignIssueToDepartment", caller, args,
                                       "User not authenticated")
                  /\ UNCHANGED tables
           ELSE IF ~RpcResolves("assign_issue_to_department", keys)
             THEN /\ result' = Failure("assignIssueToDepartment", caller, args,
                                       "Could not find the function in the schema cache")
                  /\ UNCHANGED tables
           ELSE \E out \in assign_issue_to_department(DB, caller, issueId, departmentId) :
                  Finish("assignIssueToDepartment", caller, args, out)

(* ------------------------------------------------------------------ *)
(* submit_work_completion                                              *)
(* ------------------------------------------------------------------ *)
Titles == { "Work Completion Report" }

Descriptions == { NULL, "", "Pothole filled" }

ImageLists == { << >>, << "url1" >> }

\* SELECT id FROM issue_assignments WHERE issue_id = ... AND assigned_to =
\* auth.uid() AND status = 'active' ORDER BY created_at DESC LIMIT 1:
\* the ids that may be selected; none when no row qualifies.  Rows are
\* kept in the order of their created_at (DEFAULT now() at insertion).
CurrentAssignment(tbl, uid, issue_id) ==
  LET mine == { a \in DOMAIN tbl : /\ tbl[a].issue_id = issue_id
                                   /\ tbl[a].assigned_to = uid
                                   /\ tbl[a].status = "active" }
  IN  IF mine = {} THEN { NoRow }
      ELSE { a \in mine : \A b \in mine : b <= a }

\* INSERT INTO work_progress (...): NOT NULL columns and foreign keys.
InsertWorkProgress(db, row) ==
  IF \/ row.submitted_by = NULL \/ row.title = NULL \/ row.description = NULL
     \/ row.after_images = NullArray
    THEN Raise("null value violates not-null constraint")
  ELSE IF row.issue_id \notin DOMAIN db.issues \/ row.submitted_by \notin UserIds
    THEN Raise("insert violates foreign key constraint")
  ELSE Done([ db EXCEPT !.work_progress = Append(@, row) ])

\* Mutant of SubmitIssueUpdate: the status is set, the stage is not.
SubmitIssueUpdate_StatusOnly(tbl, issue_id) ==
  IF issue_id \notin DOMAIN tbl THEN tbl
  ELSE [ tbl EXCEPT ![issue_id] = [ @ EXCEPT !.status = "in_progress" ] ]

\* UPDATE issues SET workflow_stage = 'department_review', status = 'in_progress'
SubmitIssueUpdate(tbl, issue_id) ==
  IF issue_id \notin DOMAIN tbl THEN tbl
  ELSE [ tbl EXCEPT ![issue_id] =
           [ @ EXCEPT !.workflow_stage = "department_review",
                      !.status = "in_progress" ] ]

submit_work_completion(db, uid, issue_id, title, description, after_images) ==
  { LET ins == InsertWorkProgress(db,
                 [ issue_id |-> issue_id, assignment_id |-> assignment_id,
                   submitted_by |-> uid, title |-> title, description |-> description,
                   after_images |-> after_images, status |-> "submitted",
                   reviewed_by |-> NULL, review_notes |-> NULL,
                   reviewed_at |-> NullTime ])
    IN  IF ins.raised THEN ins @@ [ ret |-> RetError(ins.error) ]
        ELSE Returned([ ins.db EXCEPT !.issues = SubmitIssueUpdate(@, issue_id) ],
                      RetSuccess)
    : assignment_id \in CurrentAssignment(db.issue_assignments, uid, issue_id) }

\* submitWorkCompletion(issueId, title, description, afterImages) of the
\* client library passes its arguments on unchecked.
submitWorkCompletion ==
  \E caller \in Submitters, issue_id \in 1..MaxIssues, title \in Titles,
     description \in Descriptions, after_images \in ImageLists :
    LET args == [ issue_id |-> issue_id, title |-> title, description |-> description,
                  after_images |-> after_images ]
        keys == { "issue_id", "title", "description", "after_images", "before_images" }
    IN  /\ now < MaxClock
        /\ UNCHANGED << tender_tables, sessions, client_memory, issue_votes, bid_calls >>
        /\ RpcResolves("submit_work_completion", keys)
        /\ \E out \in submit_work_completion(DB, caller, issue_id, title, description,
                                             after_images) :
             Finish("submit_work_completion", caller, args, out)

(* ------------------------------------------------------------------ *)
(* approve_work_completion                                             *)
(* ------------------------------------------------------------------ *)
ReviewNotes == { "", "Looks good" }

\* UPDATE work_progress SET status = 'approved', reviewed_by, review_notes, reviewed_at
ApproveRecordUpdate(tbl, work_progress_id, uid, review_notes) ==
  [ tbl EXCEPT ![work_progress_id] =
      [ @ EXCEPT !.status = "approved", !.reviewed_by = uid,
                 !.review_notes = review_notes, !.reviewed_at = now ] ]

\* UPDATE issues SET status = 'resolved', workflow_stage = 'resolved', ...
ApproveIssueUpdate(tbl, progress_record) ==
  IF progress_record.issue_id \notin DOMAIN tbl THEN tbl
  ELSE [ tbl EXCEPT ![progress_record.issue_id] =
           [ @ EXCEPT !.status = "resolved",
                      !.workflow_stage = "resolved",
                      !.resolved_at = now,
                      !.final_resolution_notes = progress_record.description,
                      !.final_resolution_images = progress_record.after_images ] ]

\* Mutant of CompleteAssignments: completed_at is not set.
CompleteAssignments_NoTimestamp(tbl, issue_id) ==
  [ a \in DOMAIN tbl |->
      IF tbl[a].issue_id = issue_id /\ tbl[a].status = "active"
        THEN [ tbl[a] EXCEPT !.status = "completed" ]
        ELSE tbl[a] ]

\* Mutant of CompleteAssignments: the active rows are removed from the
\* ledger instead of being marked.
CompleteAssignments_Delete(tbl, issue_id) ==
  SelectSeq(tbl, LAMBDA r : ~(r.issue_id = issue_id /\ r.status = "active"))

\* UPDATE issue_assignments SET status = 'completed', completed_at = now()
\* WHERE issue_id = ... AND status = 'active'
CompleteAssignments(tbl, issue_id) ==
  [ a \in DOMAIN tbl |->
      IF tbl[a].issue_id = issue_id /\ tbl[a].status = "active"
        THEN [ tbl[a] EXCEPT !.status = "completed", !.completed_at = now ]
        ELSE tbl[a] ]

\* Mutant of approve_work_completion: a missing record is reported as
\* success instead of 'Work progress record not found'.
approve_work_completion_NoNotFound(db, uid, work_progress_id, review_notes) ==
  IF work_progress_id \notin DOMAIN db.work_progress
    THEN { Returned(db, RetSuccess) }
    ELSE { Returned(
             [ db EXCEPT
                 !.work_progress =
                    ApproveRecordUpdate(@, work_progress_id, uid, review_notes),
                 !.issues = ApproveIssueUpdate(@, db.work_progress[work_progress_id]),
                 !.issue_assignments =
                    CompleteAssignments(@, db.work_progress[work_progress_id].issue_id) ],
             RetSuccess) }

approve_work_completion(db, uid, work_progress_id, review_notes) ==
  IF work_progress_id \notin DOMAIN db.work_progress
    THEN { Returned(db, RetError("Work progress record not found")) }
    ELSE LET progress_record == db.work_progress[work_progress_id]
         IN  { Returned(
                 [ db EXCEPT
                     !.work_progress =
                        ApproveRecordUpdate(@, work_progress_id, uid, review_notes),
                     !.issues = ApproveIssueUpdate(@, progress_record),
                     !.issue_assignments =
                        CompleteAssignments(@, progress_record.issue_id) ],
                 RetSuccess) }

\* approveWorkCompletion(workProgressId, reviewNotes) of the client library.
approveWorkCompletion ==
  \E caller \in Reviewers, work_progress_id \in 1..MaxWorkProgress,
     review_notes \in ReviewNotes :
    LET args == [ work_progress_id |-> work_progress_id, review_notes |-> review_notes ]
        keys == { "work_progress_id", "review_notes" }
    IN  /\ now < MaxClock
        /\ UNCHANGED << tender_tables, sessions, client_memory, issue_votes, bid_calls >>
        /\ RpcResolves("approve_work_completion", keys)
        /\ \E out \in approve_work_completion(DB, caller, work_progress_id, review_notes) :
             Finish("approve_work_completion", caller, args, out)

(* ------------------------------------------------------------------ *)
(* updateIssue                                                         *)
(* ------------------------------------------------------------------ *)
\* The updates the screens are written to send: the tender form of the department admin,
\* and the work-completion form of the department dashboard.
IssueUpdates ==
  { [ workflow_stage |-> "contractor_assigned", status |-> "in_progress" ],
    [ status |-> "resolved", resolved_at |-> now,
      final_resolution_notes |-> "Pothole filled", workflow_stage |-> "resolved" ] }

\* UPDATE <table> SET <updates> WHERE id = ...: the row after the update.
ApplyIssueUpdates(row, updates) ==
  [ f \in DOMAIN row |-> IF f \in DOMAIN updates THEN updates[f] ELSE row[f] ]

\* updateIssue(issueId, updates) of the client library; issueId 0 stands
\* for a missing id.  The screens send neither title nor description.
updateIssue ==
  \E issueId \in 0..MaxIssues, updates \in IssueUpdates :
    LET args == [ issue_id |-> issueId, updates |-> updates ]
    IN  /\ now < MaxClock
        /\ UNCHANGED << tender_tables, sessions, client_memory, issue_votes, bid_calls >>
        /\ IF issueId = 0
             THEN /\ result' = Failure("updateIssue", NULL, args, "Issue ID is required")
                  /\ UNCHANGED tables
           ELSE IF issueId \notin DOMAIN issues
             THEN /\ result' = Failure("updateIssue", NULL, args,
                                       "JSON object requested, multiple (or no) rows returned")
                  /\ UNCHANGED tables
           ELSE /\ Commit([ DB EXCEPT !.issues[issueId] = ApplyIssueUpdates(@, updates) ])
                /\ result' = Success("updateIssue", NULL, args)

(* ------------------------------------------------------------------ *)
(* updateWorkProgress                                                  *)
(* ------------------------------------------------------------------ *)
\* CREATE POLICY "Area admins can review work progress" ... FOR UPDATE USING
AreaAdminsCanReview(uid) ==
  /\ uid \in UserIds
  /\ Profiles[uid].user_type \in { "admin", "area_super_admin" }

\* The updates a reviewer's client sends.
WorkProgressUpdates == { [ status |-> "rejected", review_notes |-> "Redo" ] }

WorkProgressEditors == { "aadm", "dadm" }

\* updateWorkProgress(progressId, updates) of the client library, called
\* by the signed-in user `caller`; progressId 0 stands for a missing id.
\* The UPDATE touches the rows the policy lets the caller see; .single()
\* turns an empty result into an error.
updateWorkProgress ==
  \E caller \in WorkProgressEditors, progressId \in 0..MaxWorkProgress,
     updates \in WorkProgressUpdates :
    LET args == [ work_progress_id |-> progressId, updates |-> updates ]
    IN  /\ now < MaxClock
        /\ UNCHANGED << tender_tables, sessions, client_memory, issue_votes, bid_calls >>
        /\ IF progressId = 0
             THEN /\ result' = Failure("updateWorkProgress", caller, args,
                                       "Progress ID is required")
                  /\ UNCHANGED tables
           ELSE IF progressId \notin DOMAIN work_progress \/ ~AreaAdminsCanReview(caller)
             THEN /\ result' = Failure("updateWorkProgress", caller, args,
                                       "JSON object requested, multiple (or no) rows returned")
                  /\ UNCHANGED tables
           ELSE /\ Commit([ DB EXCEPT !.work_progress[progressId] =
                                         ApplyIssueUpdates(@, updates) ])
                /\ result' = Success("updateWorkProgress", caller, args)

Next ==
  \/ createIssue
  \/ InsertAssignment
  \/ CallAssignIssueToDepartment
  \/ assignIssueToDepartment
  \/ submitWorkCompletion
  \/ approveWorkCompletion
  \/ updateIssue
  \/ updateWorkProgress

Spec == Init /\ [][Next]_vars

(* ------------------------------------------------------------------ *)
(* Tenders: createTender, createBid, assignTenderToContractor          *)
(* ------------------------------------------------------------------ *)
\* null of the numeric column awarded_amount; amounts are positive.
NullAmount == 0

\* Each request of the tender functions is its own transaction.
TenderCommit(t, ta, b) ==
  /\ tenders' = t
  /\ tender_assignments' = ta
  /\ bids' = b
  /\ now' = now + 1
  /\ UNCHANGED << issues, issue_assignments, work_progress >>

TenderUnchanged == UNCHANGED << tables, tender_tables >>

\* tenderData as the callers build it.  A field that is not in the record
\* reads as undefined: for estimated_amount that is the same as 0 in
\* `!tenderData.estimated_amount`, for the others the same as null.
AmountOf(tenderData) ==
  IF "estimated_amount" \in DOMAIN tenderData THEN tenderData.estimated_amount ELSE 0

\* deadline_date as a time of the model's clock; 0: not given.
TenderInputs ==
  [ title : { "Road repair" }, description : { "Fill the potholes" },
    category : { "roads" }, estimated_amount : { 0, 100 },
    deadline_date : { 1, 9 }, source_issue_id : 0..MaxIssues ]

\* Mutant of checkRateLimit: a call is refused only when more than
\* maxRequests requests are in the window.
checkRateLimit_OneMore(map, key, maxRequests, windowMs) ==
  LET windowStart == clock - windowMs
      had == IF key \in DOMAIN map THEN map ELSE (key :> << >>) @@ map
      requests == SelectSeq(had[key], LAMBDA timestamp : timestamp > windowStart)
  IN  IF Len(requests) > maxRequests
        THEN [ thrown |-> TRUE, rateLimitMap |-> had ]
        ELSE [ thrown |-> FALSE,
               rateLimitMap |-> [ had EXCEPT ![key] = Append(requests, clock) ] ]

\* checkRateLimit(key, maxRequests, windowMs) on the map `map` at the time
\* clock: whether it throws, and the map it leaves.
checkRateLimit(map, key, maxRequests, windowMs) ==
  LET windowStart == clock - windowMs
      had == IF key \in DOMAIN map THEN map ELSE (key :> << >>) @@ map
      requests == SelectSeq(had[key], LAMBDA timestamp : timestamp > windowStart)
  IN  IF Len(requests) >= maxRequests
        THEN [ thrown |-> TRUE, rateLimitMap |-> had ]
        ELSE [ thrown |-> FALSE,
               rateLimitMap |-> [ had EXCEPT ![key] = Append(requests, clock) ] ]

RateLimitExceeded == "Rate limit exceeded. Please try again later."

\* createTender(tenderData) called by the signed-in user `caller`: the
\* error it returns (NULL: none), the tenders table and the rateLimitMap
\* it leaves.
CreateTenderCall(caller, tenderData) ==
  LET refuse(message) ==
        [ error |-> message, tenders |-> tenders, rateLimitMap |-> rateLimitMap ]
      limit == checkRateLimit(rateLimitMap, << "tender_creation", caller >>, 5, 3600000)
  IN  IF caller = NULL
        THEN refuse("User not authenticated")
      ELSE IF tenderData.title = "" \/ tenderData.description = "" \/ tenderData.category = NULL
        THEN refuse("Title, description, and category are required")
      ELSE IF AmountOf(tenderData) <= 0
        THEN refuse("Valid estimated amount is required")
      ELSE IF tenderData.deadline_date = 0 \/ tenderData.deadline_date <= now
        THEN refuse("Deadline must be in the future")
      ELSE IF limit.thrown
        THEN [ error |-> RateLimitExceeded, tenders |-> tenders,
               rateLimitMap |-> limit.rateLimitMap ]
      ELSE [ error |-> NULL,
             rateLimitMap |-> limit.rateLimitMap,
             tenders |-> Append(tenders,
                           [ status |-> "available", posted_by |-> caller,
                             source_issue_id |-> tenderData.source_issue_id,
                             deadline_date |-> tenderData.deadline_date,
                             created_at |-> clock,
                             awarded_to |-> NULL, awarded_amount |-> NullAmount,
                             awarded_at |-> NullTime ]) ]

TenderPosters == { "dadm", NULL }

\* createTender while the table has fewer than maxTenders rows and the
\* time of the database is before maxClock.
CreateTenderWithin(maxTenders, maxClock) ==
  \E caller \in TenderPosters, tenderData \in TenderInputs :
    LET out == CreateTenderCall(caller, tenderData)
        args == [ source_issue_id |-> tenderData.source_issue_id ]
    IN  /\ now < maxClock
        /\ UNCHANGED << sessions, clock, issue_votes, bid_calls >>
        /\ Len(tenders) < maxTenders
        /\ tenderData.source_issue_id \in { NoRow } \cup DOMAIN issues
        /\ rateLimitMap' = out.rateLimitMap
        /\ IF out.error # NULL
             THEN /\ result' = Failure("createTender", caller, args, out.error)
                  /\ TenderUnchanged
             ELSE /\ result' = Success("createTender", caller, args)
                  /\ TenderCommit(out.tenders, tender_assignments, bids)

createTender == CreateTenderWithin(MaxTenders, MaxClock)

\* UPDATE issues SET <updates> WHERE id = issueId, as updateIssue sends
\* it: the error it returns (NULL: none) and the issues table it leaves.
UpdateIssueCall(issueId, updates) ==
  IF issueId = 0
    THEN [ error |-> "Issue ID is required", issues |-> issues ]
  ELSE IF issueId \notin DOMAIN issues
    THEN [ error |-> "JSON object requested, multiple (or no) rows returned",
           issues |-> issues ]
  ELSE [ error |-> NULL,
         issues |-> [ issues EXCEPT ![issueId] = ApplyIssueUpdates(@, updates) ] ]

\* The tender form of the department admin: title and deadline date as
\* typed ("" and 0: left empty).
TenderForms == [ title : { "", "Road repair" }, deadlineDate : { 0, 9 } ]

\* submitTender of the department-admin screens for the issue selected in
\* the list.  The tender object has estimated_budget_min/max and no
\* estimated_amount.  A failing updateIssue is only logged.
submitTender ==
  \E caller \in TenderPosters, selectedIssue \in DOMAIN issues, form \in TenderForms :
    LET args == [ issue_id |-> selectedIssue ]
        tender == [ title |-> form.title, description |-> "Fill the potholes",
                    category |-> "roads", deadline_date |-> form.deadlineDate,
                    source_issue_id |-> selectedIssue ]
        created == CreateTenderCall(caller, tender)
        updated == UpdateIssueCall(selectedIssue,
                     [ workflow_stage |-> "contractor_assigned", status |-> "in_progress" ])
    IN  /\ now < MaxClock
        /\ UNCHANGED << sessions, clock, issue_votes, bid_calls >>
        /\ Len(tenders) < MaxTenders
        /\ IF form.title = "" \/ form.deadlineDate = 0
             THEN /\ result' = Failure("submitTender", caller, args,
                                       "Please fill in all required fields")
                  /\ TenderUnchanged
                  /\ UNCHANGED rateLimitMap
           ELSE IF created.error # NULL
             THEN /\ result' = Failure("submitTender", caller, args, created.error)
                  /\ TenderUnchanged
                  /\ rateLimitMap' = created.rateLimitMap
           ELSE /\ result' = Success("submitTender", caller, args)
                /\ rateLimitMap' = created.rateLimitMap
                /\ tenders' = created.tenders
                /\ issues' = updated.issues
                /\ now' = now + 1
                /\ UNCHANGED << issue_assignments, work_progress, tender_assignments, bids >>

Bidders == { "con", "cit" }

\* proposal is given by its length.
BidInputs == [ tender_id : 0..MaxTenders, amount : { 100 }, proposal : { 49, 50 } ]

\* SELECT id FROM bids WHERE tender_id = ... AND user_id = ... with
\* .single(): data is returned only when exactly one row matches.
ExistingBid(tbl, tender_id, user_id) ==
  Cardinality({ b \in DOMAIN tbl : /\ tbl[b].tender_id = tender_id
                                   /\ tbl[b].user_id = user_id }) = 1

\* The checks of createBid up to the query of the tender: the message of
\* the check that fails, NULL when all pass.
BidRefusal(bidData) ==
  IF bidData.tender_id = 0 \/ bidData.amount = 0 \/ bidData.proposal = 0
    THEN "Tender ID, amount, and proposal are required"
  ELSE IF bidData.amount <= 0
    THEN "Bid amount must be positive"
  ELSE IF bidData.proposal < 50
    THEN "Proposal must be at least 50 characters"
  ELSE IF bidData.tender_id \notin DOMAIN tenders
    THEN "Tender not found"
  ELSE IF tenders[bidData.tender_id].status # "available"
    THEN "Tender is no longer available for bidding"
  ELSE IF tenders[bidData.tender_id].deadline_date <= now
    THEN "Tender deadline has passed"
  ELSE NULL

BidRow(caller, bidData) ==
  [ tender_id |-> bidData.tender_id, user_id |-> caller, status |-> "pending" ]

\* createBid(bidData) called by the signed-in user `caller`, with no other
\* call between its requests.
createBid ==
  \E caller \in Bidders, bidData \in BidInputs :
    LET args == [ tender_id |-> bidData.tender_id ]
        refuse(message) == /\ result' = Failure("createBid", caller, args, message)
                           /\ TenderUnchanged
        limit == checkRateLimit(rateLimitMap, << "bid_creation", caller >>, 10, 3600000)
    IN  /\ now < MaxClock
        /\ UNCHANGED << sessions, clock, issue_votes, bid_calls >>
        /\ Len(bids) < MaxBids
        /\ IF BidRefusal(bidData) # NULL
             THEN refuse(BidRefusal(bidData)) /\ UNCHANGED rateLimitMap
           ELSE IF ExistingBid(bids, bidData.tender_id, caller)
             THEN refuse("You have already bid on this tender") /\ UNCHANGED rateLimitMap
           ELSE IF limit.thrown
             THEN refuse(RateLimitExceeded) /\ rateLimitMap' = limit.rateLimitMap
           ELSE /\ result' = Success("createBid", caller, args)
                /\ rateLimitMap' = limit.rateLimitMap
                /\ TenderCommit(tenders, tender_assignments,
                                Append(bids, BidRow(caller, bidData)))

\* UPDATE tenders SET status = 'awarded', ... WHERE id = tenderId AND
\* status = 'available': no row matches when the tender is missing or no
\* longer available, and that is not an error.
AwardTender(t, tenderId, contractorId, contractAmount) ==
  [ i \in DOMAIN t |->
      IF i = tenderId /\ t[i].status = "available"
        THEN [ t[i] EXCEPT !.status = "awarded", !.awarded_to = contractorId,
                           !.awarded_amount = contractAmount, !.awarded_at = now ]
        ELSE t[i] ]

\* The rollback: UPDATE tenders SET status = 'available', awarded_to = null,
\* awarded_amount = null, awarded_at = null WHERE id = tenderId
ResetTender(t, tenderId) ==
  [ i \in DOMAIN t |->
      IF i = tenderId
        THEN [ t[i] EXCEPT !.status = "available", !.awarded_to = NULL,
                           !.awarded_amount = NullAmount, !.awarded_at = NullTime ]
        ELSE t[i] ]

\* UPDATE bids SET status = 'accepted' WHERE tender_id = ... AND user_id =
\* contractorId, then SET status = 'rejected' for the other users' bids.
SettleBids(b, tenderId, contractorId) ==
  [ i \in DOMAIN b |->
      IF b[i].tender_id # tenderId THEN b[i]
      ELSE IF b[i].user_id = contractorId THEN [ b[i] EXCEPT !.status = "accepted" ]
      ELSE [ b[i] EXCEPT !.status = "rejected" ] ]

Contractors == { "con", "cit" }

ContractAmounts == { -1, 0, 100 }

\* assignTenderToContractor(tenderId, contractorId, contractAmount) called
\* by the signed-in user `caller`; tenderId 0 stands for a missing id.
\* insertRefused: the database refuses the INSERT into tender_assignments.
\* The table references tenders, so a row for a missing tender is always
\* refused; its other constraints are not part of the sources.
assignTenderToContractor ==
  \E caller \in TenderPosters, tenderId \in 0..MaxTenders, contractorId \in Contractors,
     contractAmount \in ContractAmounts, insertRefused \in BOOLEAN :
    LET args == [ tender_id |-> tenderId, contractor_id |-> contractorId ]
        awarded == AwardTender(tenders, tenderId, contractorId, contractAmount)
        row == [ tender_id |-> tenderId, contractor_id |-> contractorId,
                 assigned_by |-> caller, contract_amount |-> contractAmount,
                 status |-> "assigned" ]
    IN  /\ now < MaxClock
        /\ UNCHANGED << sessions, client_memory, issue_votes, bid_calls >>
        /\ Len(tender_assignments) < MaxTenderAssignments
        /\ UNCHANGED << issues, issue_assignments, work_progress >>
        /\ IF tenderId = 0 \/ contractAmount = 0
             THEN /\ result' = Failure("assignTenderToContractor", caller, args,
                        "Tender ID, contractor ID, and contract amount are required")
                  /\ UNCHANGED << tender_tables, now >>
           ELSE IF contractAmount <= 0
             THEN /\ result' = Failure("assignTenderToContractor", caller, args,
                                       "Contract amount must be positive")
                  /\ UNCHANGED << tender_tables, now >>
           ELSE IF caller = NULL
             THEN /\ result' = Failure("assignTenderToContractor", caller, args,
                                       "User not authenticated")
                  /\ UNCHANGED << tender_tables, now >>
           ELSE IF insertRefused \/ tenderId \notin DOMAIN tenders
             THEN /\ result' = Failure("assignTenderToContractor", caller, args,
                                       "insert into tender_assignments refused")
                  /\ tenders' = ResetTender(awarded, tenderId)
                  /\ now' = IF tenders' = tenders THEN now ELSE now + 1
                  /\ UNCHANGED << tender_assignments, bids >>
           ELSE /\ result' = Success("assignTenderToContractor", caller, args)
                /\ tenders' = awarded
                /\ tender_assignments' = Append(tender_assignments, row)
                /\ bids' = SettleBids(bids, tenderId, contractorId)
                /\ now' = now + 1

\* getCurrentUser(): handleSuccess(user) or handleError(error), an object
\* with the keys data and error (and message), for the session of `caller`.
getCurrentUser(caller) ==
  IF caller = NULL
    THEN [ data |-> NULL, error |-> "Auth session missing!" ]
    ELSE [ data |-> caller, error |-> NULL ]

\* const { key } = object: a key the object does not have reads as
\* undefined.
Destructure(object, key) ==
  IF key \in DOMAIN object THEN object[key] ELSE NULL

\* What updateUserPoints hands back to submitReport, which does not read it.
PointsOutcomes == { NULL, "Missing required parameters" }

\* submitReport of the report screen, with the form's title given by its
\* length (0: left empty).  The user is read as { user, error: userError }
\* from getCurrentUser().
submitReport ==
  \E caller \in Reporters, title \in TitleLengths \cup { 0 },
     description \in DescriptionLengths, area \in AreaTexts,
     pointsError \in PointsOutcomes :
    LET current == getCurrentUser(caller)
        user == Destructure(current, "user")
        userError == Destructure(current, "error")
        id == Len(issues) + 1
        args == [ id |-> id, points_error |-> pointsError ]
        payload == [ area |-> area, workflow_stage |-> "reported",
                     current_assignee_id |-> NULL, assigned_area_id |-> NULL,
                     user_id |-> user, status |-> "pending" ]
    IN  /\ Len(issues) < MaxIssues
        /\ now < MaxClock
        /\ UNCHANGED << tender_tables, sessions, client_memory, issue_votes, bid_calls >>
        /\ IF title = 0
             THEN /\ result' = Failure("submitReport", caller, args,
                                       "Please fill in all required fields")
                  /\ UNCHANGED tables
           ELSE IF userError # NULL
             THEN /\ result' = Failure("submitReport", caller, args, userError)
                  /\ UNCHANGED tables
           ELSE IF user = NULL
             THEN /\ result' = Failure("submitReport", caller, args,
                                       "You must be logged in to report issues")
                  /\ UNCHANGED tables
           ELSE IF title < 5 \/ title > 200
             THEN /\ result' = Failure("submitReport", caller, args,
                                       "Title must be between 5 and 200 characters")
                  /\ UNCHANGED tables
           ELSE IF description < 10 \/ description > 2000
             THEN /\ result' = Failure("submitReport", caller, args,
                                       "Description must be between 10 and 2000 characters")
                  /\ UNCHANGED tables
           ELSE \E out \in auto_assign_issue_to_area(DB, caller, id, payload) :
                  IF out.raised
                    THEN /\ result' = Failure("submitReport", caller, args, out.error)
                         /\ UNCHANGED tables
                    ELSE /\ Room(out.db)
                         /\ Commit([ out.db EXCEPT !.issues = Append(@, IssueRow(out.row)) ])
                         /\ result' = Success("submitReport", caller, args)

ClientNext ==
  \/ createIssue
  \/ submitReport
  \/ CallAssignIssueToDepartment
  \/ createTender
  \/ submitTender
  \/ createBid
  \/ assignTenderToContractor

\* The screens and the tender functions of the client library.
ClientSpec == Init /\ [][ClientNext]_vars

(* ------------------------------------------------------------------ *)
(* The rate limit of createTender, with time passing in the client     *)
(* ------------------------------------------------------------------ *)
\* Time passes: Date.now() moves on by one step of the clock.
Tick ==
  /\ clock < MaxTicks * TickMs
  /\ clock' = clock + TickMs
  /\ UNCHANGED << tables, tender_tables, result, sessions, rateLimitMap,
                  issue_votes, bid_calls >>

\* createTender called often enough to meet its limit.
createTenderOften == CreateTenderWithin(MaxRateTenders, MaxRateClock)

RateNext ==
  \/ createTenderOften
  \/ Tick

RateSpec == Init /\ [][RateNext]_vars

(* ------------------------------------------------------------------ *)
(* Votes on issues                                                     *)
(* ------------------------------------------------------------------ *)
\* null: nobody is signed in.
Voters == { "cit", "con", NULL }

\* issueId 0 is an id not given; "sideways" is a vote type the function
\* does not know.
VoteIssueIds == 0..MaxIssues
VoteTypes == { "upvote", "downvote", "sideways" }

\* The rows of issue_votes with the given issue and user.
VotesOf(tbl, issueId, user_id) ==
  { v \in DOMAIN tbl : tbl[v].issue_id = issueId /\ tbl[v].user_id = user_id }

\* The id the database gives a new row: one that no row of tbl has.
NewVoteId(tbl) ==
  CHOOSE id \in 1..(Len(tbl) + 1) :
    /\ \A v \in DOMAIN tbl : tbl[v].id # id
    /\ \A smaller \in 1..(id - 1) : \E v \in DOMAIN tbl : tbl[v].id = smaller

\* tbl without the rows whose id is `id`.
DeleteVote(tbl, id) == SelectSeq(tbl, LAMBDA row : row.id # id)

\* tbl with vote_type set in the rows whose id is `id`.
UpdateVote(tbl, id, voteType) ==
  [ v \in DOMAIN tbl |->
      IF tbl[v].id = id THEN [ tbl[v] EXCEPT !.vote_type = voteType ] ELSE tbl[v] ]

\* A voteOnIssue that inserts a row whatever it finds.
VoteRequests_AlwaysInsert(tbl, issueId, user_id, voteType) ==
  [ message |-> "Vote recorded",
    issue_votes |-> Append(tbl, [ id |-> NewVoteId(tbl), issue_id |-> issueId,
                                  user_id |-> user_id, vote_type |-> voteType ]) ]

\* The requests of voteOnIssue after its rate limit: the query of the
\* user's vote with .single(), which returns a row only when exactly one
\* matches, and the delete, update or insert that follows.
VoteRequests(tbl, issueId, user_id, voteType) ==
  LET found == VotesOf(tbl, issueId, user_id)
      existingVote == tbl[CHOOSE v \in found : TRUE]
  IN  IF Cardinality(found) = 1
        THEN IF existingVote.vote_type = voteType
               THEN [ message |-> "Vote removed",
                      issue_votes |-> DeleteVote(tbl, existingVote.id) ]
               ELSE [ message |-> "Vote updated",
                      issue_votes |-> UpdateVote(tbl, existingVote.id, voteType) ]
        ELSE [ message |-> "Vote recorded",
               issue_votes |-> Append(tbl, [ id |-> NewVoteId(tbl), issue_id |-> issueId,
                                             user_id |-> user_id, vote_type |-> voteType ]) ]

\* The calls of `user_id` that the rate limit of voteOnIssue has recorded.
VotesCast(user_id) ==
  IF << "vote", user_id >> \in DOMAIN rateLimitMap
    THEN Len(rateLimitMap[<< "vote", user_id >>])
    ELSE 0

\* voteOnIssue(issueId, voteType) called in the client of `caller`.
voteOnIssue ==
  \E caller \in Voters, issueId \in VoteIssueIds, voteType \in VoteTypes :
    LET args == [ issue_id |-> issueId, vote_type |-> voteType ]
        limit == checkRateLimit(rateLimitMap, << "vote", caller >>, 50, 3600000)
        voted == VoteRequests(issue_votes, issueId, caller, voteType)
    IN  /\ VotesCast("cit") + VotesCast("con") < MaxVotes
        /\ UNCHANGED << tables, tender_tables, sessions, clock, bid_calls >>
        /\ IF issueId = 0 \/ voteType \notin { "upvote", "downvote" }
             THEN /\ result' = Failure("voteOnIssue", caller, args,
                       "Valid issue ID and vote type (upvote/downvote) are required")
                  /\ UNCHANGED << issue_votes, rateLimitMap >>
           ELSE IF caller = NULL
             THEN /\ result' = Failure("voteOnIssue", caller, args, "User not authenticated")
                  /\ UNCHANGED << issue_votes, rateLimitMap >>
           ELSE IF limit.thrown
             THEN /\ result' = Failure("voteOnIssue", caller, args, RateLimitExceeded)
                  /\ rateLimitMap' = limit.rateLimitMap
                  /\ UNCHANGED issue_votes
           ELSE /\ result' = Success("voteOnIssue", caller,
                                     [ issue_id |-> issueId, vote_type |-> voteType,
                                       message |-> voted.message ])
                /\ rateLimitMap' = limit.rateLimitMap
                /\ issue_votes' = voted.issue_votes

\* Votes cast from the clients of two users.
VoteSpec == Init /\ [][voteOnIssue]_vars

(* ------------------------------------------------------------------ *)
(* createBid request by request, two calls at a time                   *)
(* ------------------------------------------------------------------ *)
BidCallsInProgress == Cardinality({ slot \in BidSlots : bid_calls[slot].pc # "idle" })

\* createBid up to its first query: the validation of bidData and the
\* query of the tender.
createBid_TenderQuery ==
  \E slot \in BidSlots, caller \in Bidders, bidData \in BidInputs :
    /\ bid_calls[slot].pc = "idle"
    /\ now < MaxClock
    /\ Len(bids) + BidCallsInProgress < MaxBids
    /\ UNCHANGED << tables, tender_tables, sessions, client_memory, issue_votes >>
    /\ IF BidRefusal(bidData) # NULL
         THEN /\ result' = Failure("createBid", caller, [ tender_id |-> bidData.tender_id ],
                                   BidRefusal(bidData))
              /\ UNCHANGED bid_calls
         ELSE /\ bid_calls' = [ bid_calls EXCEPT ![slot] =
                                  [ pc |-> "existing_bid", caller |-> caller,
                                    tender_id |-> bidData.tender_id ] ]
              /\ UNCHANGED result

\* The query of the user's bid on the tender.
createBid_BidQuery ==
  \E slot \in BidSlots :
    LET call == bid_calls[slot]
    IN  /\ call.pc = "existing_bid"
        /\ UNCHANGED << tables, tender_tables, sessions, client_memory, issue_votes >>
        /\ IF ExistingBid(bids, call.tender_id, call.caller)
             THEN /\ result' = Failure("createBid", call.caller,
                                       [ tender_id |-> call.tender_id ],
                                       "You have already bid on this tender")
                  /\ bid_calls' = [ bid_calls EXCEPT ![slot] = IdleBidCall ]
             ELSE /\ bid_calls' = [ bid_calls EXCEPT ![slot].pc = "insert" ]
                  /\ UNCHANGED result

\* The rate limit and the insert of the bid.
createBid_Insert ==
  \E slot \in BidSlots :
    LET call == bid_calls[slot]
        args == [ tender_id |-> call.tender_id ]
        limit == checkRateLimit(rateLimitMap, << "bid_creation", call.caller >>, 10, 3600000)
    IN  /\ call.pc = "insert"
        /\ UNCHANGED << sessions, clock, issue_votes >>
        /\ bid_calls' = [ bid_calls EXCEPT ![slot] = IdleBidCall ]
        /\ rateLimitMap' = limit.rateLimitMap
        /\ IF limit.thrown
             THEN /\ result' = Failure("createBid", call.caller, args, RateLimitExceeded)
                  /\ TenderUnchanged
             ELSE /\ result' = Success("createBid", call.caller, args)
                  /\ TenderCommit(tenders, tender_assignments,
                                  Append(bids, BidRow(call.caller, call)))

BidNext ==
  \/ createTender
  \/ createBid_TenderQuery
  \/ createBid_BidQuery
  \/ createBid_Insert

\* Tenders posted and bids placed, the requests of two createBid calls
\* taking turns.
BidSpec == Init /\ [][BidNext]_vars

(* ------------------------------------------------------------------ *)
(* The procedures statement by statement, in concurrent transactions   *)
(* (READ COMMITTED: every statement sees the rows committed before it  *)
(* starts and the transaction's own writes; an UPDATE waits for the    *)
(* transaction that has written the row).                              *)
(* ------------------------------------------------------------------ *)
InsertOf(table, row) == [ kind |-> "insert", table |-> table, id |-> NoRow, row |-> row ]

\* The rows `ids` of a table as an UPDATE leaves them, reduced to the
\* columns its SET clause assigns.
UpdatesOf(table, after, ids, columns) ==
  LET idx == SelectSeq([ i \in 1..Len(after) |-> i ], LAMBDA i : i \in ids)
  IN  [ k \in 1..Len(idx) |->
          [ kind |-> "update", table |-> table, id |-> idx[k],
            cols |-> [ c \in columns |-> after[idx[k]][c] ] ] ]

ApplyWrite(db, w) ==
  IF w.kind = "insert"
    THEN [ db EXCEPT ![w.table] = Append(@, w.row) ]
    ELSE LET row == db[w.table][w.id]
         IN  [ db EXCEPT ![w.table][w.id] =
                 [ c \in DOMAIN row |-> IF c \in DOMAIN w.cols THEN w.cols[c] ELSE row[c] ] ]

RECURSIVE ApplyWrites(_, _)
ApplyWrites(db, writes) ==
  IF writes = << >> THEN db
  ELSE ApplyWrites(ApplyWrite(db, Head(writes)), Tail(writes))

\* What a statement of session s sees.
SessionView(s) == ApplyWrites(DB, sessions.slot[s].writes)

\* The rows other sessions have updated and not yet committed.
LockedByOthers(s) ==
  { << w.table, w.id >> :
      w \in UNION { { sessions.slot[t].writes[i] : i \in DOMAIN sessions.slot[t].writes }
                    : t \in Slots \ { s } } } \ { << "issue_assignments", NoRow >>,
                                                 << "work_progress", NoRow >> }

\* Rows inserted by the sessions and not yet committed.
PendingInserts(table) ==
  LET n(s) == Cardinality({ i \in DOMAIN sessions.slot[s].writes :
                              /\ sessions.slot[s].writes[i].kind = "insert"
                              /\ sessions.slot[s].writes[i].table = table })
  IN  n(1) + n(2)

AllIdle == \A s \in Slots : sessions.slot[s].op = "idle"

\* Session 1 begins a transaction when no transaction is in progress, and
\* session 2 begins one while that transaction is in progress.
MayBegin(s) ==
  /\ sessions.slot[s].op = "idle"
  /\ IF s = 1 THEN AllIdle /\ sessions.rounds < MaxRounds
     ELSE sessions.slot[1].op # "idle" /\ Len(sessions.ran) < 2

Call(op, uid, issue_id, department_id, work_progress_id) ==
  [ op |-> op, uid |-> uid, issue_id |-> issue_id, department_id |-> department_id,
    work_progress_id |-> work_progress_id ]

\* Session s has begun the call and is left with the transaction txn.
Begun(s, call, txn) ==
  [ sessions EXCEPT !.slot[s] = txn,
                    !.rounds = IF s = 1 THEN @ + 1 ELSE @,
                    !.base = IF s = 1 THEN DB ELSE @,
                    !.ran = IF s = 1 THEN << call >> ELSE Append(@, call) ]

CallOf(txn) ==
  Call(txn.op, txn.uid, txn.issue_id, txn.department_id, txn.work_progress_id)

\* RETURN and COMMIT of the transaction of session s with the writes given.
CommitTxn(s, writes) ==
  /\ Commit(ApplyWrites(DB, writes))
  /\ result' = Success(sessions.slot[s].op, sessions.slot[s].uid, CallOf(sessions.slot[s]))
  /\ sessions' = [ sessions EXCEPT !.slot[s] = IdleTxn ]
  /\ UNCHANGED << tender_tables, client_memory, issue_votes, bid_calls >>

\* A statement raised: the transaction is rolled back.
RollbackTxn(s, message) ==
  /\ result' = Failure(sessions.slot[s].op, sessions.slot[s].uid,
                       CallOf(sessions.slot[s]), message)
  /\ sessions' = [ sessions EXCEPT !.slot[s] = IdleTxn ]
  /\ UNCHANGED << tables, tender_tables, client_memory, issue_votes, bid_calls >>

\* The statement of session s is done, the transaction goes on at pc.
Proceed(s, writes, pc) ==
  /\ sessions' = [ sessions EXCEPT !.slot[s].writes = @ \o writes, !.slot[s].pc = pc ]
  /\ UNCHANGED << tables, tender_tables, result, client_memory, issue_votes, bid_calls >>

ConcIssues == 1

ConcAssigners == { "aadm" }

ConcSubmitters == { "dadm" }

ConcReviewers == { "aadm" }

\* Only the first issue is created, before the first transaction.
ReportFirstIssue ==
  /\ sessions = NoSessions
  /\ Len(issues) < ConcIssues
  /\ createIssue

\* SELECT id INTO dept_admin_id FROM profiles ...; IF dept_admin_id IS NULL
assign_issue_to_department_Select ==
  \E s \in Slots, uid \in ConcAssigners, issue_id \in 1..ConcIssues,
     department_id \in DepartmentIds :
    LET call == Call("assign_issue_to_department", uid, issue_id, department_id, NoRow)
    IN  /\ MayBegin(s)
        /\ UNCHANGED << tables, tender_tables, client_memory, issue_votes, bid_calls >>
        /\ IF DepartmentAdmins(department_id) = {}
             THEN /\ result' = Failure(call.op, uid, call,
                                       "No department admin found for this department")
                  /\ sessions' = Begun(s, call, IdleTxn)
             ELSE \E dept_admin_id \in DepartmentAdmins(department_id) :
                    /\ sessions' = Begun(s, call,
                         [ IdleTxn EXCEPT !.op = call.op, !.pc = "insert", !.uid = uid,
                                          !.issue_id = issue_id,
                                          !.department_id = department_id,
                                          !.dept_admin_id = dept_admin_id ])
                    /\ UNCHANGED result

\* INSERT INTO issue_assignments (...), with the AFTER INSERT trigger's
\* UPDATE of the issue.
assign_issue_to_department_Insert ==
  \E s \in Slots :
    LET txn == sessions.slot[s]
        view == SessionView(s)
        row == AssignmentRow(txn.issue_id, txn.uid, txn.dept_admin_id, "department_admin")
        ins == InsertIssueAssignment(view, txn.uid, TRUE, row)
    IN  /\ txn.op = "assign_issue_to_department"
        /\ txn.pc = "insert"
        /\ IF ins.raised THEN RollbackTxn(s, ins.error)
           ELSE /\ << "issues", txn.issue_id >> \notin LockedByOthers(s)
                /\ Len(issue_assignments) + PendingInserts("issue_assignments") < MaxAssignments
                /\ Proceed(s, << InsertOf("issue_assignments", row) >>
                              \o UpdatesOf("issues", ins.db.issues, { txn.issue_id },
                                           { "workflow_stage", "current_assignee_id",
                                             "assigned_department_id" }),
                           "update")

\* UPDATE issues SET assigned_department_id, current_assignee_id,
\* workflow_stage WHERE id = issue_id; RETURN
assign_issue_to_department_Update ==
  \E s \in Slots :
    LET txn == sessions.slot[s]
        view == SessionView(s)
        after == AssignDepartmentUpdate(view.issues, txn.issue_id, txn.department_id,
                                        txn.dept_admin_id)
    IN  /\ txn.op = "assign_issue_to_department"
        /\ txn.pc = "update"
        /\ << "issues", txn.issue_id >> \notin LockedByOthers(s)
        /\ CommitTxn(s, txn.writes \o
                        UpdatesOf("issues", after, { txn.issue_id } \cap DOMAIN after,
                                  { "assigned_department_id", "current_assignee_id",
                                    "workflow_stage" }))

\* SELECT id INTO assignment_id FROM issue_assignments WHERE ... LIMIT 1
submit_work_completion_Select ==
  \E s \in Slots, uid \in ConcSubmitters, issue_id \in 1..ConcIssues :
    LET call == Call("submit_work_completion", uid, issue_id, NULL, NoRow)
    IN  /\ MayBegin(s)
        /\ UNCHANGED << tables, tender_tables, result, client_memory, issue_votes, bid_calls >>
        /\ \E assignment_id \in CurrentAssignment(issue_assignments, uid, issue_id) :
             sessions' = Begun(s, call,
               [ IdleTxn EXCEPT !.op = call.op, !.pc = "insert", !.uid = uid,
                                !.issue_id = issue_id, !.assignment_id = assignment_id ])

\* INSERT INTO work_progress (...)
submit_work_completion_Insert ==
  \E s \in Slots :
    LET txn == sessions.slot[s]
        row == [ issue_id |-> txn.issue_id, assignment_id |-> txn.assignment_id,
                 submitted_by |-> txn.uid, title |-> "Work Completion Report",
                 description |-> "Pothole filled", after_images |-> << "url1" >>,
                 status |-> "submitted", reviewed_by |-> NULL, review_notes |-> NULL,
                 reviewed_at |-> NullTime ]
        ins == InsertWorkProgress(SessionView(s), row)
    IN  /\ txn.op = "submit_work_completion"
        /\ txn.pc = "insert"
        /\ IF ins.raised THEN RollbackTxn(s, ins.error)
           ELSE /\ Len(work_progress) + PendingInserts("work_progress") < MaxSubmissions
                /\ Proceed(s, << InsertOf("work_progress", row) >>, "update")

\* UPDATE issues SET workflow_stage = 'department_review', status =
\* 'in_progress' WHERE id = issue_id; RETURN
submit_work_completion_Update ==
  \E s \in Slots :
    LET txn == sessions.slot[s]
        after == SubmitIssueUpdate(SessionView(s).issues, txn.issue_id)
    IN  /\ txn.op = "submit_work_completion"
        /\ txn.pc = "update"
        /\ << "issues", txn.issue_id >> \notin LockedByOthers(s)
        /\ CommitTxn(s, txn.writes \o
                        UpdatesOf("issues", after, { txn.issue_id } \cap DOMAIN after,
                                  { "workflow_stage", "status" }))

\* SELECT wp.*, i.id INTO progress_record ...; IF NOT FOUND
approve_work_completion_Select ==
  \E s \in Slots, uid \in ConcReviewers, work_progress_id \in 1..MaxSubmissions :
    LET call == Call("approve_work_completion", uid, NoRow, NULL, work_progress_id)
    IN  /\ MayBegin(s)
        /\ UNCHANGED << tables, tender_tables, client_memory, issue_votes, bid_calls >>
        /\ IF work_progress_id \notin DOMAIN work_progress
             THEN /\ result' = Failure(call.op, uid, call, "Work progress record not found")
                  /\ sessions' = Begun(s, call, IdleTxn)
             ELSE /\ sessions' = Begun(s, call,
                       [ IdleTxn EXCEPT !.op = call.op, !.pc = "update_record", !.uid = uid,
                                        !.work_progress_id = work_progress_id,
                                        !.issue_id = work_progress[work_progress_id].issue_id,
                                        !.progress_record = work_progress[work_progress_id] ])
                  /\ UNCHANGED result

\* UPDATE work_progress SET status = 'approved', ... WHERE id = work_progress_id
approve_work_completion_UpdateRecord ==
  \E s \in Slots :
    LET txn == sessions.slot[s]
        after == ApproveRecordUpdate(SessionView(s).work_progress, txn.work_progress_id,
                                     txn.uid, "Looks good")
    IN  /\ txn.op = "approve_work_completion"
        /\ txn.pc = "update_record"
        /\ << "work_progress", txn.work_progress_id >> \notin LockedByOthers(s)
        /\ Proceed(s, UpdatesOf("work_progress", after, { txn.work_progress_id },
                                { "status", "reviewed_by", "review_notes", "reviewed_at" }),
                   "update_issue")

\* UPDATE issues SET status = 'resolved', workflow_stage = 'resolved', ...
\* WHERE id = progress_record.issue_id
approve_work_completion_UpdateIssue ==
  \E s \in Slots :
    LET txn == sessions.slot[s]
        after == ApproveIssueUpdate(SessionView(s).issues, txn.progress_record)
    IN  /\ txn.op = "approve_work_completion"
        /\ txn.pc = "update_issue"
        /\ << "issues", txn.issue_id >> \notin LockedByOthers(s)
        /\ Proceed(s, UpdatesOf("issues", after, { txn.issue_id } \cap DOMAIN after,
                                { "status", "workflow_stage", "resolved_at",
                                  "final_resolution_notes", "final_resolution_images" }),
                   "complete")

\* UPDATE issue_assignments SET status = 'completed', completed_at = now()
\* WHERE issue_id = progress_record.issue_id AND status = 'active'; RETURN
approve_work_completion_Complete ==
  \E s \in Slots :
    LET txn == sessions.slot[s]
        before == SessionView(s).issue_assignments
        matched == { a \in DOMAIN before : /\ before[a].issue_id = txn.issue_id
                                           /\ before[a].status = "active" }
        after == CompleteAssignments(before, txn.issue_id)
    IN  /\ txn.op = "approve_work_completion"
        /\ txn.pc = "complete"
        /\ \A a \in matched : << "issue_assignments", a >> \notin LockedByOthers(s)
        /\ CommitTxn(s, txn.writes \o
                        UpdatesOf("issue_assignments", after, matched,
                                  { "status", "completed_at" }))

ConcNext ==
  \/ ReportFirstIssue
  \/ assign_issue_to_department_Select
  \/ assign_issue_to_department_Insert
  \/ assign_issue_to_department_Update
  \/ submit_work_completion_Select
  \/ submit_work_completion_Insert
  \/ submit_work_completion_Update
  \/ approve_work_completion_Select
  \/ approve_work_completion_UpdateRecord
  \/ approve_work_completion_UpdateIssue
  \/ approve_work_completion_Complete

\* The three procedures called from two sessions at a time.
ConcSpec == Init /\ [][ConcNext]_vars

(* ------------------------------------------------------------------ *)
(* Reading the last call                                               *)
(* ------------------------------------------------------------------ *)
\* The argument f of the call r, or the text "absent" when the call had none.
Arg(r, f) == IF f \in DOMAIN r.args THEN r.args[f] ELSE "absent"

\* The issue a call r addressed is a stored issue of the table tbl.
OnIssue(r, tbl) ==
  /\ "issue_id" \in DOMAIN r.args
  /\ r.args.issue_id \in DOMAIN tbl

ActiveAssignments(tbl, issue_id) ==
  { a \in DOMAIN tbl : tbl[a].issue_id = issue_id /\ tbl[a].status = "active" }

(* ------------------------------------------------------------------ *)
(* C1: every change of an issue's workflow_stage follows an edge of    *)
(* the stage table; no operation moves an issue along another edge.    *)
(* ------------------------------------------------------------------ *)
StageEdges ==
  { << "reported", "area_review" >>,
    << "area_review", "department_assigned" >>,
    << "department_assigned", "contractor_assigned" >>,
    << "contractor_assigned", "in_progress" >>,
    << "department_assigned", "in_progress" >>,
    << "in_progress", "department_review" >>,
    << "department_review", "area_approval" >>,
    << "area_approval", "resolved" >>,
    << "department_review", "resolved" >> }

\* C1 as claimed: a stage changes only along an edge.  The procedures and
\* the trigger write the stage without reading it, so this is violated.
C1_StageFollowsEdges ==
  [][ \A i \in DOMAIN issues :
        issues'[i].workflow_stage # issues[i].workflow_stage
          => << issues[i].workflow_stage, issues'[i].workflow_stage >> \in StageEdges ]_vars

(* ------------------------------------------------------------------ *)
(* C2: an issue never has two issue_assignments rows with status       *)
(* 'active'.                                                           *)
(* ------------------------------------------------------------------ *)
\* C2 as claimed.  No operation flips the earlier assignment when it
\* creates a new one, so this is violated.
C2_AtMostOneActive ==
  \A i \in DOMAIN issues : Cardinality(ActiveAssignments(issue_assignments, i)) <= 1

(* ------------------------------------------------------------------ *)
(* C3: approve_work_completion on a record that is already 'approved'  *)
(* fails and changes nothing.                                          *)
(* ------------------------------------------------------------------ *)
\* C3 as claimed.  The procedure does not read the record's status, so a
\* second approval is applied again and this is violated.
C3_SecondApprovalRefused ==
  [][ ( /\ result'.op = "approve_work_completion"
        /\ Arg(result', "work_progress_id") \in DOMAIN work_progress
        /\ work_progress[Arg(result', "work_progress_id")].status = "approved" )
      => ( /\ ~result'.ok
           /\ UNCHANGED << issues, issue_assignments, work_progress >> ) ]_vars

(* ------------------------------------------------------------------ *)
(* C4: an issue created with an area text that names, ignoring case,   *)
(* an active area with an area admin A is stored in 'area_review',     *)
(* assigned to that area and to A, with one active area_admin          *)
(* assignment to A.                                                    *)
(* ------------------------------------------------------------------ *)
\* The active areas with an admin whose name the text equals, ignoring case.
AssignableAreas(area) ==
  IF area = NullText THEN {}
  ELSE { a \in Areas : /\ a.is_active
                       /\ a.area_super_admin_id # NULL
                       /\ Len(a.name) = Len(area)
                       /\ \A k \in 1..Len(area) : LowerChar[a.name[k]] = LowerChar[area[k]] }

AssignmentsOf(issue_id) ==
  { a \in DOMAIN issue_assignments : issue_assignments[a].issue_id = issue_id }

\* C4 as claimed.  The trigger runs BEFORE INSERT: its own INSERT into
\* issue_assignments refers to an issue that is not stored yet, the
\* statement raises and createIssue returns an error, so this is violated.
C4_CreatedInAreaReview ==
  ( /\ result.op = "createIssue"
    /\ "area" \in DOMAIN result.args
    /\ AssignableAreas(result.args.area) # {} )
  => /\ result.ok
     /\ \E a \in AssignableAreas(result.args.area) :
          LET i == result.args.id
          IN  /\ issues[i].workflow_stage = "area_review"
              /\ issues[i].assigned_area_id = a.id
              /\ issues[i].current_assignee_id = a.area_super_admin_id
              /\ Cardinality(AssignmentsOf(i)) = 1
              /\ \A x \in AssignmentsOf(i) :
                   /\ issue_assignments[x].assignment_type = "area_admin"
                   /\ issue_assignments[x].assigned_to = a.area_super_admin_id
                   /\ issue_assignments[x].status = "active"

(* ------------------------------------------------------------------ *)
(* C5: an issue created with an area text that matches no active area  *)
(* with an admin is stored in 'reported', with no assignee, no area    *)
(* and no assignment.                                                  *)
(* ------------------------------------------------------------------ *)
\* C5 as claimed.  The trigger keeps a current_assignee_id the caller put
\* in issueData, and then the stage of issueData too, so this is violated.
C5_CreatedReported ==
  ( /\ result.op = "createIssue"
    /\ "area" \in DOMAIN result.args
    /\ AssignableAreas(result.args.area) = {} )
  => /\ result.ok
     /\ LET i == result.args.id
        IN  /\ issues[i].workflow_stage = "reported"
            /\ issues[i].current_assignee_id = NULL
            /\ issues[i].assigned_area_id = NULL
            /\ AssignmentsOf(i) = {}

C7_EmptySubmissionRefused ==
  [][ ( /\ result'.op = "submit_work_completion"
        /\ \/ Arg(result', "after_images") = << >>
           \/ Arg(result', "description") = "" )
      => ( /\ ~result'.ok
           /\ work_progress' = work_progress
           /\ issues' = issues ) ]_vars

C9_ApprovalResolves ==
  [][ ( /\ result'.op = "approve_work_completion"
        /\ Arg(result', "work_progress_id") \in DOMAIN work_progress
        /\ work_progress[Arg(result', "work_progress_id")].status = "submitted" )
      => LET w == result'.args.work_progress_id
             i == work_progress[w].issue_id
         IN  /\ result'.ok
             /\ work_progress'[w].status = "approved"
             /\ work_progress'[w].reviewed_by = result'.caller
             /\ work_progress'[w].reviewed_at # NullTime
             /\ issues'[i].status = "resolved"
             /\ issues'[i].workflow_stage = "resolved"
             /\ issues'[i].resolved_at # NullTime
             /\ issues'[i].final_resolution_notes = work_progress[w].description
             /\ issues'[i].final_resolution_images = work_progress[w].after_images
             /\ Len(issue_assignments') = Len(issue_assignments)
             /\ \A a \in DOMAIN issue_assignments :
                  IF a \in ActiveAssignments(issue_assignments, i)
                    THEN /\ issue_assignments'[a].status = "completed"
                         /\ issue_assignments'[a].completed_at # NullTime
                    ELSE issue_assignments'[a] = issue_assignments[a] ]_vars

\* A record was approved and the assignment of its issue is completed.
C9_Witness ==
  /\ result.op = "approve_work_completion"
  /\ result.ok
  /\ LET w == result.args.work_progress_id
     IN  /\ work_progress[w].status = "approved"
         /\ work_progress[w].reviewed_by = result.caller
         /\ work_progress[w].description = "Pothole filled"
         /\ issues[work_progress[w].issue_id].final_resolution_notes = "Pothole filled"
         /\ issues[work_progress[w].issue_id].workflow_stage = "resolved"
         /\ \E a \in DOMAIN issue_assignments :
              /\ issue_assignments[a].issue_id = work_progress[w].issue_id
              /\ issue_assignments[a].status = "completed"
              /\ issue_assignments[a].completed_at # NullTime

(* ------------------------------------------------------------------ *)
(* C10: approve_work_completion for an id that matches no record       *)
(* returns 'Work progress record not found' and changes no row.        *)
(* ------------------------------------------------------------------ *)
C10_UnknownRecordRefused ==
  [][ ( /\ result'.op = "approve_work_completion"
        /\ Arg(result', "work_progress_id") \notin DOMAIN work_progress )
      => ( /\ ~result'.ok
           /\ result'.error = "Work progress record not found"
           /\ UNCHANGED << issues, issue_assignments, work_progress >> ) ]_vars

\* The call was refused while an issue and an active assignment exist.
C10_Witness ==
  /\ result.op = "approve_work_completion"
  /\ result.error = "Work progress record not found"
  /\ result.args.work_progress_id \notin DOMAIN work_progress
  /\ issues # << >>
  /\ \E a \in DOMAIN issue_assignments : issue_assignments[a].status = "active"

(* ------------------------------------------------------------------ *)
(* C12: submit_work_completion succeeds only for the issue's current   *)
(* assignee; called by anyone else it fails, adds no work_progress row *)
(* and leaves the issue's workflow_stage and status as they were.      *)
(* ------------------------------------------------------------------ *)
\* uid is neither the issue's current_assignee_id nor the holder of an
\* active assignment for it.
NotAssignee(uid, issue_id) ==
  /\ issues[issue_id].current_assignee_id # uid
  /\ \A a \in ActiveAssignments(issue_assignments, issue_id) :
       issue_assignments[a].assigned_to # uid

\* C12 as claimed, for calls whose description and after_images are filled
\* in.  The procedure is SECURITY DEFINER and never compares
\* auth.uid() with the issue's assignee, so this is violated.
C12_OnlyAssigneeSubmits ==
  [][ ( /\ result'.op = "submit_work_completion"
        /\ OnIssue(result', issues)
        /\ NotAssignee(result'.caller, result'.args.issue_id)
        /\ Len(result'.args.after_images) >= 1
        /\ result'.args.description \notin { NULL, "" } )
      => ( /\ ~result'.ok
           /\ work_progress' = work_progress
           /\ issues'[result'.args.issue_id].workflow_stage =
                issues[result'.args.issue_id].workflow_stage
           /\ issues'[result'.args.issue_id].status =
                issues[result'.args.issue_id].status ) ]_vars

(* ------------------------------------------------------------------ *)
(* C13: assign_issue_to_department succeeds only for the admin of the  *)
(* issue's assigned area or a global admin; for any other caller it    *)
(* fails, adds no issue_assignments row and leaves the issue unchanged.*)
(* ------------------------------------------------------------------ *)
\* uid may assign the issue: the super-admin of its assigned area, or a
\* profile of user_type 'admin'.
MayAssign(uid, issue_id) ==
  \/ Profiles[uid].user_type = "admin"
  \/ \E a \in Areas : /\ a.id = issues[issue_id].assigned_area_id
                      /\ a.area_super_admin_id = uid

\* C13 as claimed.  The procedure is SECURITY DEFINER and never looks at
\* the caller's profile, so this is violated.
C13_OnlyAreaAdminAssigns ==
  [][ ( /\ result'.op = "assign_issue_to_department"
        /\ OnIssue(result', issues)
        /\ ~MayAssign(result'.caller, result'.args.issue_id) )
      => ( /\ ~result'.ok
           /\ issue_assignments' = issue_assignments
           /\ issues' = issues ) ]_vars

(* ------------------------------------------------------------------ *)
(* C16: an issue is in stage 'contractor_assigned' only together with  *)
(* an issue_assignments row of type 'contractor' whose assigned_to is  *)
(* the issue's current_assignee_id.                                    *)
(* ------------------------------------------------------------------ *)
\* C16 as claimed.  updateIssue writes the stage alone, so this is
\* violated.
C16_ContractorStageHasAssignment ==
  \A i \in DOMAIN issues :
    issues[i].workflow_stage = "contractor_assigned"
      => \E a \in DOMAIN issue_assignments :
           /\ issue_assignments[a].issue_id = i
           /\ issue_assignments[a].assignment_type = "contractor"
           /\ issue_assignments[a].assigned_to = issues[i].current_assignee_id

(* ------------------------------------------------------------------ *)
(* C17: a resolved issue (workflow_stage or status 'resolved') has an  *)
(* approved work_progress record whose description is the issue's      *)
(* final_resolution_notes; nothing but an approval resolves an issue.  *)
(* ------------------------------------------------------------------ *)
Resolved(issue) == issue.workflow_stage = "resolved" \/ issue.status = "resolved"

\* C17 as claimed: the step that resolves a stored issue is a successful
\* approval of one of its work_progress records, whose description becomes
\* the issue's final_resolution_notes.  The work-completion form of the
\* department dashboard resolves the issue through updateIssue, so this is
\* violated.
C17_ResolvedOnlyByApproval ==
  [][ \A i \in DOMAIN issues :
        ( Resolved(issues'[i]) /\ ~Resolved(issues[i]) )
          => /\ result'.op = "approve_work_completion"
             /\ result'.ok
             /\ \E w \in DOMAIN work_progress' :
                  /\ work_progress'[w].issue_id = i
                  /\ work_progress'[w].status = "approved"
                  /\ issues'[i].final_resolution_notes = work_progress'[w].description ]_vars

(* ------------------------------------------------------------------ *)
(* C14: a work_progress record whose status is 'approved' is never     *)
(* changed again, by a further approval or by updateWorkProgress.      *)
(* ------------------------------------------------------------------ *)
\* C14 as claimed.  approve_work_completion does not read the record's
\* status and the UPDATE policy does not either, so this is violated.
C14_ApprovedIsImmutable ==
  [][ \A w \in DOMAIN work_progress :
        work_progress[w].status = "approved" => work_progress'[w] = work_progress[w] ]_vars

(* ------------------------------------------------------------------ *)
(* C19: the assignment ledger is append-only: no issue_assignments row *)
(* is ever deleted, no existing row changes its issue_id, assigned_by, *)
(* assigned_to or assignment_type, and the only change to an existing  *)
(* row is its status leaving 'active' with completed_at being set.     *)
(* ------------------------------------------------------------------ *)
C19_LedgerAppendOnly ==
  [][ /\ Len(issue_assignments') >= Len(issue_assignments)
      /\ \A a \in DOMAIN issue_assignments :
           \/ issue_assignments'[a] = issue_assignments[a]
           \/ /\ issue_assignments[a].status = "active"
              /\ issue_assignments'[a].status # "active"
              /\ issue_assignments'[a].completed_at # NullTime
              /\ issue_assignments'[a] =
                   [ issue_assignments[a] EXCEPT
                       !.status = issue_assignments'[a].status,
                       !.completed_at = issue_assignments'[a].completed_at ] ]_vars

\* An approval has completed an assignment: the row is still in the
\* ledger, with the hand-off it recorded.
C19_Witness ==
  /\ result.op = "approve_work_completion"
  /\ result.ok
  /\ \E a \in DOMAIN issue_assignments :
       /\ issue_assignments[a].status = "completed"
       /\ issue_assignments[a].completed_at # NullTime
       /\ issue_assignments[a].assignment_type = "department_admin"
       /\ issue_assignments[a].assigned_by = "aadm"
       /\ issue_assignments[a].assigned_to = "dadm"


(* ------------------------------------------------------------------ *)
(* C11: operations are all-or-nothing                                   *)
(* ------------------------------------------------------------------ *)

\* The tenders a step adds for stored issue i.
NewTendersFor(i) ==
  { t \in DOMAIN tenders' \ DOMAIN tenders : tenders'[t].source_issue_id = i }

TenderAssignmentsOf(t) ==
  { a \in DOMAIN tender_assignments : tender_assignments[a].tender_id = t }

\* C20 as claimed: an awarded tender has exactly one tender_assignments row
\* and every accepted bid on it is the bid of tender.awarded_to.
\* assignTenderToContractor never looks at how many rows its UPDATE of the
\* tender matched, so a second call inserts a second row and settles the
\* bids again.
C20_AwardedExactlyOnce ==
  \A t \in DOMAIN tenders :
    tenders[t].status = "awarded" =>
      /\ Cardinality(TenderAssignmentsOf(t)) = 1
      /\ \A b \in DOMAIN bids :
           (bids[b].tender_id = t /\ bids[b].status = "accepted")
             => bids[b].user_id = tenders[t].awarded_to



(* ------------------------------------------------------------------ *)
(* C15: operations on one issue are serialized                          *)
(* ------------------------------------------------------------------ *)

\* The databases a call leaves when it runs alone on db.
After(db, call) ==
  LET outs ==
        CASE call.op = "assign_issue_to_department" ->
               assign_issue_to_department(db, call.uid, call.issue_id, call.department_id)
          [] call.op = "submit_work_completion" ->
               submit_work_completion(db, call.uid, call.issue_id,
                                      "Work Completion Report", "Pothole filled",
                                      << "url1" >>)
          [] OTHER ->
               approve_work_completion(db, call.uid, call.work_progress_id, "Looks good")
  IN  { IF o.raised THEN db ELSE o.db : o \in outs }

\* The databases the two calls leave when one runs after the other.
SerialOutcomes(db, c1, c2) ==
  UNION { After(x, c2) : x \in After(db, c1) }
    \cup UNION { After(x, c1) : x \in After(db, c2) }

\* The database without its time stamps.
StripTimes(db) ==
  [ issues |-> [ i \in DOMAIN db.issues |-> [ db.issues[i] EXCEPT !.resolved_at = NullTime ] ],
    issue_assignments |->
      [ a \in DOMAIN db.issue_assignments |->
          [ db.issue_assignments[a] EXCEPT !.completed_at = NullTime ] ],
    work_progress |->
      [ w \in DOMAIN db.work_progress |->
          [ db.work_progress[w] EXCEPT !.reviewed_at = NullTime ] ] ]

\* The pairs of operations the claim names.
SerializedPairs ==
  { << "assign_issue_to_department", "assign_issue_to_department" >>,
    << "assign_issue_to_department", "approve_work_completion" >>,
    << "approve_work_completion", "assign_issue_to_department" >>,
    << "submit_work_completion", "approve_work_completion" >>,
    << "approve_work_completion", "submit_work_completion" >>,
    << "approve_work_completion", "approve_work_completion" >> }

\* C15 as claimed: when two of these operations have run at the same time
\* on the issue, the issue, its assignments and its work_progress rows are
\* as one of the two serial orders leaves them.  Nothing in the procedures
\* locks the issue or rereads what an earlier statement read, so a
\* submission that has read its assignment before an approval commits
\* still records it and puts the resolved issue back in review.
C15_Serialized ==
  ( /\ AllIdle
    /\ Len(sessions.ran) = 2
    /\ << sessions.ran[1].op, sessions.ran[2].op >> \in SerializedPairs )
  => StripTimes(DB) \in
       { StripTimes(x) : x \in SerialOutcomes(sessions.base, sessions.ran[1], sessions.ran[2]) }



(* ------------------------------------------------------------------ *)
(* C21: a refused assignment insert leaves the tender as it was         *)
(* ------------------------------------------------------------------ *)

\* C21 as claimed: when the INSERT into tender_assignments is refused, the
\* call fails and the tenders table is as before the call.  The rollback
\* writes status 'available' and null award columns whatever the tender
\* was before, so an awarded tender loses its award.
C21_RefusedInsertRestoresTender ==
  [][ ( /\ result'.op = "assignTenderToContractor"
        /\ result'.error = "insert into tender_assignments refused" )
      => ( result'.ok = FALSE /\ tenders' = tenders ) ]_vars



(* ------------------------------------------------------------------ *)
(* C25: the filled tender form creates the tender and moves the issue   *)
(* ------------------------------------------------------------------ *)

\* C25 as claimed: submitTender by the department admin, with the form
\* filled, for an issue in 'department_assigned', succeeds, stores an
\* available tender for the issue and moves the issue to
\* contractor_assigned / in_progress.  The tender object of the form has no
\* estimated_amount, which createTender requires.
C25_FilledTenderFormCreatesTender ==
  [][ ( /\ result'.op = "submitTender"
        /\ result'.caller = "dadm"
        /\ result'.error # "Please fill in all required fields"
        /\ issues[result'.args.issue_id].workflow_stage = "department_assigned" )
      => ( /\ result'.ok
           /\ \E t \in NewTendersFor(result'.args.issue_id) :
                tenders'[t].status = "available"
           /\ issues'[result'.args.issue_id].workflow_stage = "contractor_assigned"
           /\ issues'[result'.args.issue_id].status = "in_progress" ) ]_vars

(* ------------------------------------------------------------------ *)
(* C26: a signed-in citizen's report reaches createIssue                *)
(* ------------------------------------------------------------------ *)

\* C26 as claimed: submitReport with the form filled stops with 'You must
\* be logged in to report issues' only when nobody is signed in.  The
\* handler reads the key user of an object that has the keys data and
\* error, so it takes every signed-in user for signed out.
C26_SignedInReportGoesOn ==
  [][ ( /\ result'.op = "submitReport"
        /\ result'.caller # NULL
        /\ result'.error # "Please fill in all required fields" )
      => result'.error # "You must be logged in to report issues" ]_vars



(* ------------------------------------------------------------------ *)
(* C27: status is 'resolved' exactly when workflow_stage is 'resolved'  *)
(* ------------------------------------------------------------------ *)

ResolvedTogether(issue) ==
  (issue.status = "resolved") <=> (issue.workflow_stage = "resolved")

\* C27 as claimed, for the stored issues: no operation takes an issue whose
\* two fields agree to one where they do not.  assign_issue_to_department
\* writes the stage and not the status, so a resolved issue that is
\* assigned again keeps status 'resolved' in stage 'department_assigned'.
C27_StatusFollowsStage ==
  [][ \A i \in DOMAIN issues :
        ResolvedTogether(issues[i]) => ResolvedTogether(issues'[i]) ]_vars

(* ------------------------------------------------------------------ *)
(* C28: the current assignee is the assignee of the active assignment   *)
(* ------------------------------------------------------------------ *)

\* C28 as claimed: every active assignment of an issue names the issue's
\* current assignee, and an issue without current assignee has no active
\* assignment.  A new assignment leaves the earlier one active, so the
\* issue has active assignments to users who are not its assignee.
C28_AssigneeMatchesActiveAssignment ==
  \A i \in DOMAIN issues :
    /\ \A a \in ActiveAssignments(issue_assignments, i) :
         issue_assignments[a].assigned_to = issues[i].current_assignee_id
    /\ issues[i].current_assignee_id = NULL
         => ActiveAssignments(issue_assignments, i) = {}

(* ------------------------------------------------------------------ *)
(* C29: a resolved issue has no active assignment                       *)
(* ------------------------------------------------------------------ *)

\* C29 as claimed.  The work-completion form of the department dashboard
\* resolves the issue with updateIssue, which touches no assignment.
C29_ResolvedHasNoActiveAssignment ==
  \A i \in DOMAIN issues :
    issues[i].workflow_stage = "resolved"
      => ActiveAssignments(issue_assignments, i) = {}

(* ------------------------------------------------------------------ *)
(* C30: what createIssue stores does not depend on the workflow fields  *)
(* of issueData                                                         *)
(* ------------------------------------------------------------------ *)

\* C30 as claimed: the issue just created is 'pending', belongs to the
\* caller, and is either in 'area_review' with the admin of a matching
\* area as assignee or in 'reported' with no assignee.  createIssue passes
\* workflow_stage and current_assignee_id of issueData on, and the trigger
\* resets the stage only when there is no assignee.
C30_CreatedIssueIgnoresPresets ==
  ( result.op = "createIssue" /\ result.ok )
  => LET issue == issues[result.args.id]
     IN  /\ issue.status = "pending"
         /\ issue.user_id = result.caller
         /\ \/ /\ issue.workflow_stage = "area_review"
               /\ \E a \in AssignableAreas(result.args.area) :
                    issue.current_assignee_id = a.area_super_admin_id
            \/ /\ issue.workflow_stage = "reported"
               /\ issue.current_assignee_id = NULL



(* ------------------------------------------------------------------ *)
(* C24: checkRateLimit lets at most maxRequests calls pass per window   *)
(* ------------------------------------------------------------------ *)

\* The times of the client's clock.
ClockTimes == { k * TickMs : k \in 0..MaxTicks }

\* The tenders a user created after the time `from` and up to windowMs later.
TendersCreatedIn(user, from, windowMs) ==
  { t \in DOMAIN tenders : /\ tenders[t].posted_by = user
                           /\ tenders[t].created_at > from
                           /\ tenders[t].created_at <= from + windowMs }

\* In every hour a user has created at most 5 tenders.
AtMostFivePerHour ==
  \A user \in TenderPosters \ { NULL }, from \in ClockTimes :
    Cardinality(TendersCreatedIn(user, from, 3600000)) <= 5

\* For the steps of createTender (time stands still during a call): a call
\* that passes the limit is recorded and leaves at most 5 requests in the
\* window; a call beyond the limit returns an error, inserts nothing
\* and records nothing.
RateLimitStep ==
  ( result'.op = "createTender" /\ clock' = clock ) =>
    LET key == << "tender_creation", result'.caller >>
    IN  /\ result'.ok =>
          /\ Len(rateLimitMap'[key]) <= 5
          /\ rateLimitMap'[key][Len(rateLimitMap'[key])] = clock
        /\ result'.error = RateLimitExceeded =>
          /\ tenders' = tenders
          /\ rateLimitMap' = rateLimitMap
          /\ Len(rateLimitMap[key]) = 5

VoteTypesOf(tbl, issueId, user_id) ==
  { << v, tbl[v].vote_type >> : v \in VotesOf(tbl, issueId, user_id) }

\* The vote of the pair: "none", or the type of its only row.
VoteOfPair(tbl, issueId, user_id) ==
  IF VotesOf(tbl, issueId, user_id) = { }
    THEN "none"
    ELSE tbl[CHOOSE v \in VotesOf(tbl, issueId, user_id) : TRUE].vote_type

VotePairs == (VoteIssueIds \ { 0 }) \X (Voters \ { NULL })

AtMostOneVote ==
  \A pair \in VotePairs : Cardinality(VotesOf(issue_votes, pair[1], pair[2])) <= 1

\* A call that went through toggles the vote of its pair and leaves the
\* votes of the other pairs alone; a call that was refused changes no vote.
VoteToggles ==
  result'.op = "voteOnIssue" =>
    IF result'.ok
      THEN LET issueId == result'.args.issue_id
               user_id == result'.caller
               voteType == result'.args.vote_type
               before == VoteOfPair(issue_votes, issueId, user_id)
               after == VoteOfPair(issue_votes', issueId, user_id)
           IN  /\ before = "none" => after = voteType
               /\ before = voteType => after = "none"
               /\ before \notin { "none", voteType } => after = voteType
               /\ \A pair \in VotePairs \ { << issueId, user_id >> } :
                    VoteOfPair(issue_votes', pair[1], pair[2])
                      = VoteOfPair(issue_votes, pair[1], pair[2])
      ELSE issue_votes' = issue_votes

\* C23: the toggle and the single row per pair.  Two calls with the same
\* type in a row, starting with no vote, end with no vote: the first
\* records the vote and the second removes it.
C23_VoteIsToggle == []AtMostOneVote /\ [][VoteToggles]_vars

\* A vote was removed by the second of two calls with the same type.
C23_Witness ==
  /\ result.op = "voteOnIssue"
  /\ result.ok
  /\ result.args.message = "Vote removed"
  /\ VotesOf(issue_votes, result.args.issue_id, result.caller) = { }
  /\ issue_votes # << >>

\* The type of a vote was switched.
C23_WitnessSwitch ==
  /\ result.op = "voteOnIssue"
  /\ result.ok
  /\ result.args.message = "Vote updated"
  /\ VoteOfPair(issue_votes, result.args.issue_id, result.caller) = result.args.vote_type

(* ------------------------------------------------------------------ *)
(* C22: a user has at most one bid per tender, whatever the order of   *)
(* the requests of the createBid calls, two calls of one user for one  *)
(* tender at the same time included.                                   *)
(* ------------------------------------------------------------------ *)
BidsOf(tbl, tender_id, user_id) ==
  { b \in DOMAIN tbl : tbl[b].tender_id = tender_id /\ tbl[b].user_id = user_id }

\* C22 as claimed.  Two calls that both query the user's bid before
\* either inserts both find none and both insert, so this is violated.
C22_OneBidPerTender ==
  \A tender_id \in DOMAIN tenders, user_id \in Bidders :
    Cardinality(BidsOf(bids, tender_id, user_id)) <= 1
====
